---- MODULE Spec2Model ----
(***************************************************************************)
(* A model of src/ledger.py: the watermark-based reconciliation job        *)
(* (main), the receipt formatters (format_waiver_receipt,                  *)
(* format_trade_receipt), the identifier resolver (resolve_rid) and the    *)
(* message chunker (chunk_lines).                                          *)
(*                                                                         *)
(* Three specifications share the module:                                  *)
(*   Spec        the job run again and again against a changing upstream   *)
(*   SpecChunk   chunk_lines, executed line by line on drawn inputs        *)
(*   SpecFormat  the two formatters applied to drawn transactions          *)
(***************************************************************************)
EXTENDS Integers, Sequences, FiniteSets, TLC

VARIABLES
    \* ---- the job (main) ----
    upstream,    \* what the transactions endpoint serves: tx id -> record
    stored,      \* state.json's last_seen_ms
    pc,          \* "idle" | "classified" | "posting" | "exited"
    last_seen,   \* main: last_seen, read at the start of the run
    all_txs,     \* main: all_txs, the fetched records (in fetch order)
    new_txs,     \* main: new_txs after the sort
    outbox,      \* messages main still has to post: <<webhook, text>>
    posted,      \* messages posted by the current run
    outcome,     \* how the current run ended
    prev,        \* how the previous run ended
    quiet,       \* TRUE while upstream is as the last successful fetch saw it
    rerun,       \* the value of quiet when the current run fetched
    hist,        \* per tx: times included in an output, seen non-final
    \* ---- chunk_lines ----
    c_header, c_lines, c_i, c_cur, c_msgs, c_pc,
    \* ---- the formatters ----
    f_t, f_maps, f_out, f_pc

runVars   == <<upstream, stored, pc, last_seen, all_txs, new_txs, outbox,
               posted, outcome, prev, quiet, rerun, hist>>
chunkVars == <<c_header, c_lines, c_i, c_cur, c_msgs, c_pc>>
fmtVars   == <<f_t, f_maps, f_out, f_pc>>
vars      == <<runVars, chunkVars, fmtVars>>

(***************************************************************************)
(* Text.  A Python str is modelled as a sequence of runs <<atom, n>>: the  *)
(* non-empty string atom repeated n >= 1 times, adjacent runs having       *)
(* different atoms.  An atom is either whitespace (" ", "\n") or a string  *)
(* that neither starts nor ends with whitespace, so len(), + and strip()   *)
(* are computed exactly on this form.                                      *)
(***************************************************************************)
NL == "\n"

WsAtoms == {" ", NL}

Rep(atom, n) == IF n = 0 \/ atom = "" THEN <<>> ELSE << <<atom, n>> >>

Str(s) == Rep(s, 1)

RECURSIVE StrLen(_)
StrLen(s) == IF s = <<>> THEN 0 ELSE Len(s[1][1]) * s[1][2] + StrLen(Tail(s))

\* a + b
Cat(a, b) ==
    IF a = <<>> THEN b
    ELSE IF b = <<>> THEN a
    ELSE IF a[Len(a)][1] = b[1][1]
         THEN SubSeq(a, 1, Len(a) - 1)
              \o << <<b[1][1], a[Len(a)][2] + b[1][2]>> >>
              \o Tail(b)
         ELSE a \o b

RECURSIVE LStrip(_)
LStrip(s) == IF s # <<>> /\ s[1][1] \in WsAtoms THEN LStrip(Tail(s)) ELSE s

RECURSIVE RStrip(_)
RStrip(s) ==
    IF s # <<>> /\ s[Len(s)][1] \in WsAtoms
    THEN RStrip(SubSeq(s, 1, Len(s) - 1))
    ELSE s

\* s.strip()
Strip(s) == RStrip(LStrip(s))

(***************************************************************************)
(* chunk_lines (src/ledger.py 126-137).                                    *)
(***************************************************************************)
ChunkBudget == 1900

\* line 128: cur = header, msgs = []
ChunkStart(header) == [cur |-> header, msgs |-> <<>>]

\* a loop that starts the next chunk without the line that did not fit
ChunkStep_DropsLine(st, header, line) ==
    IF StrLen(st.cur) + StrLen(line) + 1 > ChunkBudget
    THEN [msgs |-> Append(st.msgs, st.cur),
          cur  |-> header]
    ELSE [msgs |-> st.msgs,
          cur  |-> Cat(Cat(st.cur, line), Str(NL))]

\* a loop that puts every line in a chunk of its own
ChunkStep_OnePerChunk(st, header, line) ==
    IF st.cur # header
    THEN [msgs |-> Append(st.msgs, st.cur),
          cur  |-> Cat(Cat(header, line), Str(NL))]
    ELSE [msgs |-> st.msgs,
          cur  |-> Cat(Cat(st.cur, line), Str(NL))]

\* lines 130-134: one iteration of the loop
ChunkStep(st, header, line) ==
    IF StrLen(st.cur) + StrLen(line) + 1 > ChunkBudget
    THEN [msgs |-> Append(st.msgs, st.cur),
          cur  |-> Cat(Cat(header, line), Str(NL))]
    ELSE [msgs |-> st.msgs,
          cur  |-> Cat(Cat(st.cur, line), Str(NL))]

\* lines 135-137: the last chunk is kept unless it strips to the header
ChunkFinish(st, header) ==
    IF Strip(st.cur) # Strip(header) THEN Append(st.msgs, st.cur) ELSE st.msgs

RECURSIVE ChunkLoop(_, _, _)
ChunkLoop(st, header, lines) ==
    IF lines = <<>> THEN st
    ELSE ChunkLoop(ChunkStep(st, header, Head(lines)), header, Tail(lines))

chunk_lines(header, lines) ==
    ChunkFinish(ChunkLoop(ChunkStart(header), header, lines), header)

(***************************************************************************)
(* SpecChunk: chunk_lines run one loop iteration at a time on a header and *)
(* up to MaxLines lines drawn from texts whose lengths lie on both sides   *)
(* of the budget.                                                          *)
(***************************************************************************)
MaxLines == 3

ChunkHeaders == {<<>>, Rep("h", 8), Rep(" ", 2)}

ChunkLineTexts ==
    {<<>>, Rep(" ", 3), Rep("a", 1), Rep("a", 940), Rep("a", 1890),
     Rep("a", 1899), Rep("a", 1900)}

RECURSIVE SeqsUpTo(_, _)
SeqsUpTo(S, n) ==
    IF n = 0 THEN {<<>>}
    ELSE LET shorter == SeqsUpTo(S, n - 1)
         IN  shorter \cup {Append(q, x) : q \in shorter, x \in S}

ChunkIdle ==
    /\ c_header = <<>> /\ c_lines = <<>> /\ c_i = 0
    /\ c_cur = <<>> /\ c_msgs = <<>> /\ c_pc = "off"

ChunkInit ==
    /\ c_header \in ChunkHeaders
    /\ c_lines \in SeqsUpTo(ChunkLineTexts, MaxLines)
    /\ c_i = 1
    /\ c_cur = ChunkStart(c_header).cur
    /\ c_msgs = ChunkStart(c_header).msgs
    /\ c_pc = "loop"

\* the loop body closes the current chunk (lines 130-132)
ChunkClose ==
    /\ c_pc = "loop" /\ c_i <= Len(c_lines)
    /\ StrLen(c_cur) + StrLen(c_lines[c_i]) + 1 > ChunkBudget
    /\ LET st == ChunkStep([cur |-> c_cur, msgs |-> c_msgs], c_header, c_lines[c_i])
       IN  c_cur' = st.cur /\ c_msgs' = st.msgs
    /\ c_i' = c_i + 1
    /\ UNCHANGED <<c_header, c_lines, c_pc>>
    /\ UNCHANGED <<runVars, fmtVars>>

\* the loop body extends the current chunk (lines 133-134)
ChunkExtend ==
    /\ c_pc = "loop" /\ c_i <= Len(c_lines)
    /\ ~(StrLen(c_cur) + StrLen(c_lines[c_i]) + 1 > ChunkBudget)
    /\ LET st == ChunkStep([cur |-> c_cur, msgs |-> c_msgs], c_header, c_lines[c_i])
       IN  c_cur' = st.cur /\ c_msgs' = st.msgs
    /\ c_i' = c_i + 1
    /\ UNCHANGED <<c_header, c_lines, c_pc>>
    /\ UNCHANGED <<runVars, fmtVars>>

\* after the loop (lines 135-137)
ChunkReturn ==
    /\ c_pc = "loop" /\ c_i > Len(c_lines)
    /\ c_msgs' = ChunkFinish([cur |-> c_cur, msgs |-> c_msgs], c_header)
    /\ c_pc' = "done"
    /\ UNCHANGED <<c_header, c_lines, c_i, c_cur>>
    /\ UNCHANGED <<runVars, fmtVars>>

(***************************************************************************)
(* Raw identifiers.  A JSON value found in an id field is one of: an       *)
(* integer v, the decimal string of v, a non-numeric string, or None /     *)
(* absent.                                                                 *)
(***************************************************************************)
RawInt(v)    == [k |-> "int", v |-> v]
RawNumStr(v) == [k |-> "numstr", v |-> v]
RawJunk      == [k |-> "str", v |-> 0]
None         == [k |-> "none", v |-> 0]

\* does int(val) return (rather than raise TypeError / ValueError)
IntOk(val) == val.k \in {"int", "numstr"}

\* int(val), where it returns
IntOf(val) == val.v

\* Python truthiness of a raw value (None and 0 are falsy, any non-empty
\* string is truthy)
Truthy(val) == val.k \in {"numstr", "str"} \/ (val.k = "int" /\ val.v # 0)

\* a or b
Or(a, b) == IF Truthy(a) THEN a ELSE b

RECURSIVE SortedSeq(_)
SortedSeq(S) ==
    IF S = {} THEN <<>>
    ELSE LET m == CHOOSE x \in S : \A y \in S : x <= y
         IN  <<m>> \o SortedSeq(S \ {m})

RECURSIVE Join(_, _)
Join(items, sep) ==
    IF items = <<>> THEN ""
    ELSE IF Len(items) = 1 THEN items[1]
    ELSE items[1] \o sep \o Join(Tail(items), sep)

RECURSIVE Flatten(_)
Flatten(ss) == IF ss = <<>> THEN <<>> ELSE Head(ss) \o Flatten(Tail(ss))

(***************************************************************************)
(* user_name_map and roster_name_map (src/ledger.py 40-77), applied to     *)
(* the lists the users and rosters endpoints return.                       *)
(***************************************************************************)
\* lines 44-50: the entry one user record contributes, keyed by str(uid)
UserEntry(u) ==
    IF ~Truthy(u.user_id) THEN <<>>
    ELSE << [key  |-> u.user_id.v,
             name |-> IF u.team_name # "" THEN u.team_name
                      ELSE IF u.display_name # "" THEN u.display_name
                      ELSE "User " \o ToString(u.user_id.v)] >>

\* a dict built by successive assignments: key -> the last entry for it
DictOf(entries) ==
    [key \in {entries[i].key : i \in DOMAIN entries} |->
        entries[CHOOSE i \in DOMAIN entries :
                    /\ entries[i].key = key
                    /\ \A j \in DOMAIN entries : entries[j].key = key => j <= i]]

user_name_map(users) ==
    LET d == DictOf(Flatten([i \in DOMAIN users |-> UserEntry(users[i])]))
    IN  [key \in DOMAIN d |-> d[key].name]

\* lines 64-75: what one roster record contributes to rmap and user_to_rid
RosterEntry(r, umap) ==
    IF r.roster_id = None THEN <<>>
    ELSE LET rid == IntOf(r.roster_id)
             fallback == "Roster " \o ToString(rid)
         IN  << [key   |-> rid,
                 name  |-> IF r.owner_id # None
                           THEN IF IntOf(r.owner_id) \in DOMAIN umap
                                THEN umap[IntOf(r.owner_id)] ELSE fallback
                           ELSE fallback,
                 owned |-> r.owner_id # None,
                 owner |-> IF r.owner_id # None THEN IntOf(r.owner_id) ELSE 0] >>

\* a map of names that leaves out the rosters whose owner is not a user
roster_name_map_KnownOwnersOnly(rosters, users) ==
    LET umap    == user_name_map(users)
        entries == Flatten([i \in DOMAIN rosters |-> RosterEntry(rosters[i], umap)])
        owners  == SelectSeq(entries, LAMBDA e : e.owned)
        names   == DictOf(SelectSeq(entries, LAMBDA e : e.owned /\ e.owner \in DOMAIN umap))
        byOwner == DictOf([i \in DOMAIN owners |->
                              [key |-> owners[i].owner, rid |-> owners[i].key]])
    IN  [rmap        |-> [key \in DOMAIN names |-> names[key].name],
         user_to_rid |-> [key \in DOMAIN byOwner |-> byOwner[key].rid]]

roster_name_map(rosters, users) ==
    LET umap    == user_name_map(users)
        entries == Flatten([i \in DOMAIN rosters |-> RosterEntry(rosters[i], umap)])
        owners  == SelectSeq(entries, LAMBDA e : e.owned)
        names   == DictOf(entries)
        byOwner == DictOf([i \in DOMAIN owners |->
                              [key |-> owners[i].owner, rid |-> owners[i].key]])
    IN  [rmap        |-> [key \in DOMAIN names |-> names[key].name],
         user_to_rid |-> [key \in DOMAIN byOwner |-> byOwner[key].rid]]

(***************************************************************************)
(* resolve_rid (src/ledger.py 94-105 and the copy at 198-210).  The result *)
(* is [ok |-> FALSE] for None, else [ok |-> TRUE, rid |-> team id].        *)
(***************************************************************************)
Unresolved == [ok |-> FALSE, rid |-> 0]

\* a resolver that looks at the owners first
resolve_rid_OwnerFirst(val, rmap, user_to_rid) ==
    IF val = None THEN Unresolved
    ELSE IF ~IntOk(val) THEN Unresolved
    ELSE IF IntOf(val) \in DOMAIN user_to_rid
         THEN [ok |-> TRUE, rid |-> user_to_rid[IntOf(val)]]
    ELSE IF IntOf(val) \in DOMAIN rmap THEN [ok |-> TRUE, rid |-> IntOf(val)]
    ELSE Unresolved

resolve_rid(val, rmap, user_to_rid) ==
    IF val = None THEN Unresolved
    ELSE IF ~IntOk(val) THEN Unresolved
    ELSE IF IntOf(val) \in DOMAIN rmap THEN [ok |-> TRUE, rid |-> IntOf(val)]
    ELSE IF IntOf(val) \in DOMAIN user_to_rid
         THEN [ok |-> TRUE, rid |-> user_to_rid[IntOf(val)]]
    ELSE Unresolved

\* fmt_player (lines 107-108)
fmt_player(pid, pmap) == IF pid \in DOMAIN pmap THEN pmap[pid] ELSE pid

\* rmap.get(rid, f"Roster {rid}") (lines 162, 231, 251)
TeamName(rid, rmap) ==
    IF rid \in DOMAIN rmap THEN rmap[rid] ELSE "Roster " \o ToString(rid)

(***************************************************************************)
(* Receipt lines.  A formatter returns a list of strings; the model keeps  *)
(* each line as the f-string's parts, [k, team, items], and Render is the  *)
(* f-string itself.  The emoji of the source are written as the ASCII      *)
(* characters R, +, - and T (one character each, as in Python's len).      *)
(***************************************************************************)
Line(k, team, items) == [k |-> k, team |-> team, items |-> items]

Blank == Line("blank", "", <<>>)

Render(line) ==
    CASE line.k = "waiver_title" -> "R **Player Transaction**"
      [] line.k = "trade_title"  -> "T **Trade Receipt**"
      [] line.k = "team"         -> "**" \o line.team \o "**"
      [] line.k = "adds"         -> "+ **Adds:**"
      [] line.k = "drops"        -> "- **Drops:**"
      [] line.k = "player"       -> line.items[1]
      [] line.k = "receives"     ->
            "**" \o line.team \o " receives:** "
            \o (IF line.items # <<>> THEN Join(line.items, ", ") ELSE "-")
      [] OTHER                   -> ""

\* what a formatter call comes to: a list of lines, None, or an exception
Lines(ls) == [res |-> "lines", lines |-> ls]
NoOutput  == [res |-> "none", lines |-> <<>>]
Raised    == [res |-> "raise", lines |-> <<>>]

(***************************************************************************)
(* format_waiver_receipt (src/ledger.py 140-185).  adds and drops are      *)
(* dicts in insertion order: sequences of [pid, val].                      *)
(***************************************************************************)
\* lines 182-183: while lines and lines[-1] == "": lines.pop()
RECURSIVE PopBlanks(_)
PopBlanks(lines) ==
    IF lines # <<>> /\ Render(lines[Len(lines)]) = ""
    THEN PopBlanks(SubSeq(lines, 1, Len(lines) - 1))
    ELSE lines

\* per[rid][field]: the players of the entries whose int(rid) is rid
PerTeam(entries, rid, pmap) ==
    LET mine == SelectSeq(entries, LAMBDA e : IntOf(e.val) = rid)
    IN  [i \in DOMAIN mine |-> fmt_player(mine[i].pid, pmap)]

\* lines 162-178: the block of one team
WaiverBlock(rid, adds, drops, rmap, pmap) ==
    LET a == PerTeam(adds, rid, pmap)
        d == PerTeam(drops, rid, pmap)
        players(names) == [i \in DOMAIN names |-> Line("player", "", <<names[i]>>)]
    IN  <<Line("team", TeamName(rid, rmap), <<>>)>>
        \o (IF a # <<>> THEN <<Line("adds", "", <<>>)>> \o players(a) ELSE <<>>)
        \o (IF d # <<>> THEN <<Line("drops", "", <<>>)>> \o players(d) ELSE <<>>)
        \o <<Blank>>

format_waiver_receipt(t, rmap, pmap) ==
    LET adds  == t.adds
        drops == t.drops
        all   == adds \o drops
    IN  IF adds = <<>> /\ drops = <<>> THEN NoOutput
        \* lines 149, 154: rid = int(rid) raises on None and on non-numeric text
        ELSE IF \E i \in DOMAIN all : ~IntOk(all[i].val) THEN Raised
        ELSE LET keys == SortedSeq({IntOf(all[i].val) : i \in DOMAIN all})
                 blocks == [i \in DOMAIN keys |->
                               WaiverBlock(keys[i], adds, drops, rmap, pmap)]
             IN  Lines(PopBlanks(<<Line("waiver_title", "", <<>>)>> \o Flatten(blocks)))

(***************************************************************************)
(* format_trade_receipt (src/ledger.py 187-256).                           *)
(***************************************************************************)
\* lines 223-233: the text of one pick and the team that receives it
PickDest(pk, rmap, user_to_rid) ==
    resolve_rid(Or(pk.owner_id, pk.roster_id), rmap, user_to_rid)

PickText(pk, rmap, user_to_rid) ==
    LET orig == resolve_rid(Or(Or(pk.roster_id, pk.previous_owner_id),
                               pk.previous_roster_id), rmap, user_to_rid)
    IN  pk.season \o " Rd " \o pk.round \o " Pick"
        \o (IF orig.ok THEN " (from " \o TeamName(orig.rid, rmap) \o ")" ELSE "")

\* lines 212-233: received, as the sequence of <<rid, text>> in the order
\* the entries are appended
ReceivedEntries(t, rmap, pmap, user_to_rid) ==
    LET adds  == t.adds
        picks == t.draft_picks
        fromAdd(e) ==
            LET r == resolve_rid(e.val, rmap, user_to_rid)
            IN  IF r.ok THEN << <<r.rid, fmt_player(e.pid, pmap)>> >> ELSE <<>>
        fromPick(pk) ==
            LET r == PickDest(pk, rmap, user_to_rid)
            IN  IF r.ok THEN << <<r.rid, PickText(pk, rmap, user_to_rid)>> >> ELSE <<>>
    IN  Flatten([i \in DOMAIN adds |-> fromAdd(adds[i])])
        \o Flatten([i \in DOMAIN picks |-> fromPick(picks[i])])

\* received.get(rid, [])
ReceivedBy(entries, rid) ==
    LET mine == SelectSeq(entries, LAMBDA e : e[1] = rid)
    IN  [i \in DOMAIN mine |-> mine[i][2]]

\* lines 236-244
RosterList(t, entries, rmap, user_to_rid) ==
    LET rosters == IF t.roster_ids # <<>> THEN t.roster_ids ELSE t.consenter_roster_ids
        one(rv) == LET r == resolve_rid(rv, rmap, user_to_rid)
                   IN  IF r.ok THEN <<r.rid>> ELSE <<>>
        roster_list == Flatten([i \in DOMAIN rosters |-> one(rosters[i])])
    IN  IF Len(roster_list) < 2
        THEN SortedSeq({entries[i][1] : i \in DOMAIN entries})
        ELSE roster_list

\* the test with < 2 for < 1
TradeSkipped_UnderTwo(entries, roster_list) == entries = <<>> \/ Len(roster_list) < 2

\* line 246: the trades that are not rendered
TradeSkipped(entries, roster_list) == entries = <<>> \/ Len(roster_list) < 1

format_trade_receipt(t, rmap, pmap, user_to_rid) ==
    LET entries     == ReceivedEntries(t, rmap, pmap, user_to_rid)
        roster_list == RosterList(t, entries, rmap, user_to_rid)
    IN  IF TradeSkipped(entries, roster_list) THEN NoOutput
        ELSE Lines(<<Line("trade_title", "", <<>>)>>
                   \o [i \in DOMAIN roster_list |->
                          Line("receives", TeamName(roster_list[i], rmap),
                               ReceivedBy(entries, roster_list[i]))])

(***************************************************************************)
(* player_name_map (src/ledger.py 79-92), on the catalogue's entries       *)
(* [pid, full_name, position, team] (already stripped).                    *)
(***************************************************************************)
PlayerName(p) ==
    LET name == IF p.full_name # "" THEN p.full_name ELSE p.pid
    IN  IF p.position # "" /\ p.team # ""
        THEN name \o " (" \o p.position \o " " \o p.team \o ")"
        ELSE IF p.position # "" THEN name \o " (" \o p.position \o ")"
        ELSE name

player_name_map(players) ==
    [pid \in {players[i].pid : i \in DOMAIN players} |->
        PlayerName(players[CHOOSE i \in DOMAIN players : players[i].pid = pid])]

(***************************************************************************)
(* The league the endpoints serve in this model: three rosters, the third  *)
(* owned by a user whose id (2) is also a roster id, and a player          *)
(* catalogue that knows p1 and p3 but not p2.                              *)
(***************************************************************************)
LeagueRosters ==
    << [roster_id |-> RawInt(1), owner_id |-> RawInt(7)],
       [roster_id |-> RawInt(2), owner_id |-> RawNumStr(8)],
       [roster_id |-> RawInt(3), owner_id |-> RawInt(2)] >>

LeagueUsers ==
    << [user_id |-> RawNumStr(7), team_name |-> "Aces", display_name |-> "ann"],
       [user_id |-> RawNumStr(8), team_name |-> "", display_name |-> "bo"],
       [user_id |-> None, team_name |-> "", display_name |-> "ghost"] >>

LeaguePlayers ==
    << [pid |-> "p1", full_name |-> "Ann Lee", position |-> "QB", team |-> "KC"],
       [pid |-> "p3", full_name |-> "", position |-> "K", team |-> ""] >>

\* what main holds after lines 263-264, the rosters endpoint having
\* returned the first n rosters
LeagueMaps(n) ==
    LET m == roster_name_map(SubSeq(LeagueRosters, 1, n), LeagueUsers)
    IN  [rmap |-> m.rmap, user_to_rid |-> m.user_to_rid,
         pmap |-> player_name_map(LeaguePlayers)]

(***************************************************************************)
(* SpecFormat: one formatter call on a drawn transaction.                  *)
(***************************************************************************)
MaxAssets == 2

\* identifiers a payload may carry: roster ids (1, 2), an owner id (7), the
\* decimal string of a roster id, an id in neither map (9), text, nothing
RawIds == {RawInt(1), RawInt(2), RawNumStr(2), RawInt(7), RawInt(9), RawJunk, None}

AssetPids == <<"p1", "p2", "p3", "p4">>

\* dicts of up to n entries pid -> identifier, the pids starting at AssetPids[from]
RECURSIVE AssetDicts(_, _)
AssetDicts(from, n) ==
    IF n = 0 THEN {<<>>}
    ELSE LET shorter == AssetDicts(from, n - 1)
         IN  shorter \cup
             {Append(d, [pid |-> AssetPids[from + Len(d)], val |-> v]) :
                 d \in {x \in shorter : Len(x) = n - 1}, v \in RawIds}

Pick(owner, roster, prevOwner) ==
    [season |-> "2026", round |-> "1", owner_id |-> owner, roster_id |-> roster,
     previous_owner_id |-> prevOwner, previous_roster_id |-> None]

PickLists ==
    {<<>>} \cup {<<Pick(o, r, None)>> : o \in {None, RawInt(1), RawInt(7), RawInt(9)},
                                        r \in {None, RawInt(2)}}
           \cup {<<Pick(RawInt(2), None, RawInt(7))>>}

ParticipantLists ==
    {<<>>, <<RawInt(1)>>, <<RawInt(1), RawInt(2)>>, <<RawInt(2), RawNumStr(2)>>,
     <<RawInt(1), RawInt(7)>>, <<RawInt(1), RawInt(2), RawInt(3)>>, <<RawInt(9), RawJunk>>}

Txn(type, status, status_updated, created, adds, drops, picks, rosters, consenters) ==
    [type |-> type, status |-> status, status_updated |-> status_updated,
     created |-> created, adds |-> adds, drops |-> drops, draft_picks |-> picks,
     roster_ids |-> rosters, consenter_roster_ids |-> consenters]

FormatInputs ==
    {Txn("waiver", "complete", 100, 100, a, d, <<>>, <<>>, <<>>) :
        a \in AssetDicts(1, MaxAssets), d \in AssetDicts(3, 1)}
    \cup
    {Txn("trade", "complete", 100, 100, a, <<>>, p, r, <<>>) :
        a \in AssetDicts(1, MaxAssets), p \in PickLists, r \in ParticipantLists}
    \cup
    {Txn("trade", "complete", 100, 100, a, <<>>, <<>>, <<>>, r) :
        a \in AssetDicts(1, 1), r \in ParticipantLists}

FormatIdle == f_t = <<>> /\ f_maps = <<>> /\ f_out = <<>> /\ f_pc = "off"

FormatInit ==
    /\ f_t \in FormatInputs
    /\ f_maps \in {LeagueMaps(n) : n \in {2, 3}}
    /\ f_out = NoOutput
    /\ f_pc = "ready"

FormatWaiver ==
    /\ f_pc = "ready" /\ f_t.type = "waiver"
    /\ f_out' = format_waiver_receipt(f_t, f_maps.rmap, f_maps.pmap)
    /\ f_pc' = "done"
    /\ UNCHANGED <<f_t, f_maps>>
    /\ UNCHANGED <<runVars, chunkVars>>

FormatTrade ==
    /\ f_pc = "ready" /\ f_t.type = "trade"
    /\ f_out' = format_trade_receipt(f_t, f_maps.rmap, f_maps.pmap, f_maps.user_to_rid)
    /\ f_pc' = "done"
    /\ UNCHANGED <<f_t, f_maps>>
    /\ UNCHANGED <<runVars, chunkVars>>

(***************************************************************************)
(* SpecResolve: roster_name_map on a drawn list of roster records, then    *)
(* resolve_rid on a drawn identifier.  The roster ids drawn are 1, 2 and   *)
(* "3"; the owner ids are 2 (also a roster id), "7" and "8".               *)
(***************************************************************************)
MaxRosters == 2

RosterRecords ==
    {[roster_id |-> r, owner_id |-> o] :
        r \in {None, RawInt(1), RawInt(2), RawNumStr(3)},
        o \in {None, RawInt(2), RawNumStr(7), RawNumStr(8)}}

ResolveInputs ==
    {[val |-> v, rosters |-> rs] :
        v \in RawIds, rs \in SeqsUpTo(RosterRecords, MaxRosters)}

ResolveInit ==
    /\ f_t \in ResolveInputs
    /\ f_maps = <<>>
    /\ f_out = <<>>
    /\ f_pc = "start"

\* rmap, user_to_rid = roster_name_map() (line 263)
BuildMaps ==
    /\ f_pc = "start"
    /\ f_maps' = roster_name_map(f_t.rosters, LeagueUsers)
    /\ f_pc' = "built"
    /\ UNCHANGED <<f_t, f_out>>
    /\ UNCHANGED <<runVars, chunkVars>>

\* a call of resolve_rid with those maps
ResolveCall ==
    /\ f_pc = "built"
    /\ f_out' = resolve_rid(f_t.val, f_maps.rmap, f_maps.user_to_rid)
    /\ f_pc' = "resolved"
    /\ UNCHANGED <<f_t, f_maps>>
    /\ UNCHANGED <<runVars, chunkVars>>

(***************************************************************************)
(* main (src/ledger.py 259-319) and what it calls.                         *)
(***************************************************************************)
\* str.lower() on the status and type strings that occur
Lower(str) ==
    CASE str = "Approved" -> "approved"
      [] str = "COMPLETE" -> "complete"
      [] str = "Trade"    -> "trade"
      [] OTHER            -> str

\* a status tuple that lists "complete" alone
is_final_status_CompleteOnly(t) == Lower(t.status) \in {"complete"}

\* lines 117-119
is_final_status(t) == Lower(t.status) \in {"complete", "approved", "executed"}

\* lines 122-123: int(status_updated or created or 0); an absent field and
\* a field that is 0 are both falsy, and both are written 0 here
txn_ts(t) ==
    IF t.status_updated # 0 THEN t.status_updated
    ELSE IF t.created # 0 THEN t.created
    ELSE 0

Max(a, b) == IF a >= b THEN a ELSE b

\* newest taken over the final transactions only
RECURSIVE Newest_FinalOnly(_, _)
Newest_FinalOnly(txs, newest) ==
    IF txs = <<>> THEN newest
    ELSE Newest_FinalOnly(Tail(txs),
                          IF is_final_status(Head(txs))
                          THEN Max(newest, txn_ts(Head(txs))) ELSE newest)

\* lines 275-279: newest after the loop over all_txs
RECURSIVE Newest(_, _)
Newest(txs, newest) ==
    IF txs = <<>> THEN newest
    ELSE Newest(Tail(txs), Max(newest, txn_ts(Head(txs))))

\* the test with >= for >
IsNewFinal_AtOrAfter(t, seen) == txn_ts(t) >= seen /\ is_final_status(t)

\* line 280: the test that appends t to new_txs
IsNewFinal(t, seen) == txn_ts(t) > seen /\ is_final_status(t)

NewTxs(txs, seen) == SelectSeq(txs, LAMBDA t : IsNewFinal(t, seen))

\* a job that writes a fresh state when nothing is newer
SavedWatermark_Reset(old, seen, newest) == IF newest > seen THEN newest ELSE 0

\* a job that does not save before it delivers
SavedWatermark_Unsaved(old, seen, newest) == old

\* lines 284-286: the content of state.json after the save
SavedWatermark(old, seen, newest) == IF newest > seen THEN newest ELSE old

\* a sort that puts a transaction before those of the same timestamp
RECURSIVE SortByTs_Unstable(_)
SortByTs_Unstable(txs) ==
    IF txs = <<>> THEN <<>>
    ELSE LET rest == SortByTs_Unstable(SubSeq(txs, 1, Len(txs) - 1))
             last == txs[Len(txs)]
             k    == Cardinality({i \in DOMAIN rest : txn_ts(rest[i]) < txn_ts(last)})
         IN  SubSeq(rest, 1, k) \o <<last>> \o SubSeq(rest, k + 1, Len(rest))

\* line 291: list.sort(key=txn_ts), a stable sort
RECURSIVE SortByTs(_)
SortByTs(txs) ==
    IF txs = <<>> THEN <<>>
    ELSE LET rest == SortByTs(SubSeq(txs, 1, Len(txs) - 1))
             last == txs[Len(txs)]
             k    == Cardinality({i \in DOMAIN rest : txn_ts(rest[i]) <= txn_ts(last)})
         IN  SubSeq(rest, 1, k) \o <<last>> \o SubSeq(rest, k + 1, Len(rest))

WaiverTypes == {"waiver", "free_agent", "add_drop"}

\* lines 299-311: the block of one transaction and the channel it goes to
Channel(t) ==
    IF Lower(t.type) \in WaiverTypes THEN "waivers"
    ELSE IF Lower(t.type) = "trade" THEN "trades"
    ELSE "none"

Block(t, maps) ==
    IF Channel(t) = "waivers" THEN format_waiver_receipt(t, maps.rmap, maps.pmap)
    ELSE IF Channel(t) = "trades"
         THEN format_trade_receipt(t, maps.rmap, maps.pmap, maps.user_to_rid)
    ELSE NoOutput

\* a loop that ends at the first transaction of the channel without a block
RECURSIVE ChannelLines_StopsAtEmpty(_, _, _, _)
ChannelLines_StopsAtEmpty(txs, maps, channel, acc) ==
    IF txs = <<>> THEN acc
    ELSE LET t     == Head(txs)
             block == IF Channel(t) = channel THEN Block(t, maps).lines ELSE <<>>
             next  == IF block = <<>> THEN acc
                      ELSE IF acc # <<>> THEN acc \o <<Blank>> \o block
                      ELSE block
         IN  IF Channel(t) = channel /\ block = <<>> THEN acc
             ELSE ChannelLines_StopsAtEmpty(Tail(txs), maps, channel, next)

\* lines 293-311: waiver_lines or trade_lines after the loop over new_txs
RECURSIVE ChannelLines(_, _, _, _)
ChannelLines(txs, maps, channel, acc) ==
    IF txs = <<>> THEN acc
    ELSE LET t     == Head(txs)
             block == IF Channel(t) = channel THEN Block(t, maps).lines ELSE <<>>
             next  == IF block = <<>> THEN acc
                      ELSE IF acc # <<>> THEN acc \o <<Blank>> \o block
                      ELSE block
         IN  ChannelLines(Tail(txs), maps, channel, next)

\* does a formatter raise while main renders txs
Raises(txs, maps) == \E i \in DOMAIN txs : Block(txs[i], maps).res = "raise"

\* lines 313-319: the calls of post() main makes, in order
Messages(txs, maps) ==
    LET text(lines) == [i \in DOMAIN lines |-> Str(Render(lines[i]))]
        msgs(channel) ==
            LET lines == ChannelLines(txs, maps, channel, <<>>)
                chunks == IF lines # <<>> THEN chunk_lines(<<>>, text(lines)) ELSE <<>>
            IN  [i \in DOMAIN chunks |-> <<channel, chunks[i]>>]
    IN  msgs("waivers") \o msgs("trades")

\* post (lines 21-26): the content that is sent ("~" stands for the
\* one-character ellipsis).  The cut keeps whole runs of one-character
\* atoms; the job's own messages stay below the limit.
PostLimit == 1950

RECURSIVE Take(_, _)
Take(s, n) ==
    IF s = <<>> \/ n <= 0 THEN <<>>
    ELSE LET size == Len(s[1][1]) * s[1][2]
         IN  IF size <= n THEN <<s[1]>> \o Take(Tail(s), n - size)
             ELSE Rep(s[1][1], n \div Len(s[1][1]))

Sent(msg) == IF StrLen(msg) > PostLimit THEN Cat(Take(msg, PostLimit), Str("~")) ELSE msg

(***************************************************************************)
(* Spec: the job, run again and again.  Upstream serves two transactions,  *)
(* A (fetched first) and B; each appears at some point, pending or final,  *)
(* and a pending one may become final, its status_updated staying as it    *)
(* is or moving forward.  A final transaction does not change.  A run      *)
(* reads each transaction once and never reads upstream again, so the      *)
(* changes of upstream are taken between runs.                             *)
(***************************************************************************)
MaxTick == 2

\* epoch-millisecond values: 0 (absent) and 100, 150, ...
Times == {0} \cup {50 + 50 * k : k \in 1..MaxTick}

CreatedTimes == {0, 100}

TxIds == <<"A", "B">>

FinalStatus(id) == IF id = "A" THEN "complete" ELSE "Approved"

Shapes == {"waiver", "trade", "empty"}

\* what the endpoint serves for transaction id
Served(id, shape, status, status_updated, created) ==
    LET p    == IF id = "A" THEN "p1" ELSE "p3"
        q    == IF id = "A" THEN "p2" ELSE "p4"
        team == IF id = "A" THEN RawInt(1) ELSE RawInt(2)
        adds == CASE shape = "waiver" -> <<[pid |-> p, val |-> team]>>
                  [] shape = "trade"  -> <<[pid |-> p, val |-> RawInt(1)],
                                           [pid |-> q, val |-> RawInt(8)]>>
                  [] OTHER            -> <<>>
        drops == IF shape = "waiver" THEN <<[pid |-> q, val |-> team]>> ELSE <<>>
        type == IF shape = "trade" THEN "trade"
                ELSE IF id = "A" THEN "waiver" ELSE "free_agent"
    IN  [id |-> id] @@
        Txn(type, status, status_updated, created, adds, drops, <<>>,
            IF shape = "trade" THEN <<RawInt(1), RawInt(2)>> ELSE <<>>, <<>>)

Absent == [id |-> "", type |-> "absent"]

Present(id) == upstream[id].type # "absent"

\* fetch_transactions over rounds_to_check (lines 267-271)
Fetched ==
    Flatten([i \in DOMAIN TxIds |->
                IF Present(TxIds[i]) THEN <<upstream[TxIds[i]]>> ELSE <<>>])

Ids(txs) == {txs[i].id : i \in DOMAIN txs}

NoHist == [n |-> 0, pend |-> FALSE]

RunInit ==
    /\ upstream = [i \in {"A", "B"} |-> Absent]
    /\ stored = 0
    /\ pc = "idle"
    /\ last_seen = 0
    /\ all_txs = <<>> /\ new_txs = <<>> /\ outbox = <<>> /\ posted = <<>>
    /\ outcome = "none" /\ prev = "none"
    /\ quiet = FALSE /\ rerun = FALSE
    /\ hist = [i \in {"A", "B"} |-> NoHist]

RunIdle ==
    /\ upstream = <<>> /\ stored = 0 /\ pc = "off" /\ last_seen = 0
    /\ all_txs = <<>> /\ new_txs = <<>> /\ outbox = <<>> /\ posted = <<>>
    /\ outcome = "none" /\ prev = "none" /\ quiet = FALSE /\ rerun = FALSE
    /\ hist = <<>>

runLocals == <<last_seen, all_txs, new_txs, outbox, posted, outcome, rerun>>

\* upstream: a transaction is created
TxAppears ==
    /\ pc = "idle"
    /\ \E i \in DOMAIN TxIds, shape \in Shapes, final \in BOOLEAN,
          su \in Times, cr \in CreatedTimes :
          /\ ~Present(TxIds[i])
          /\ upstream' = [upstream EXCEPT ![TxIds[i]] =
                 Served(TxIds[i], shape,
                        IF final THEN FinalStatus(TxIds[i]) ELSE "pending", su, cr)]
    /\ quiet' = FALSE
    /\ UNCHANGED <<stored, pc, prev, hist, runLocals>>
    /\ UNCHANGED <<chunkVars, fmtVars>>

\* upstream: a pending transaction becomes final
TxSettles ==
    /\ pc = "idle"
    /\ \E i \in DOMAIN TxIds, su \in Times :
          LET t == upstream[TxIds[i]]
          IN  /\ Present(TxIds[i]) /\ t.status = "pending"
              /\ su >= t.status_updated
              /\ upstream' = [upstream EXCEPT ![TxIds[i]] =
                     [t EXCEPT !.status = FinalStatus(TxIds[i]),
                               !.status_updated = su]]
    /\ quiet' = FALSE
    /\ UNCHANGED <<stored, pc, prev, hist, runLocals>>
    /\ UNCHANGED <<chunkVars, fmtVars>>

\* a run that would fetch after it has saved: the failure leaves the new
\* watermark on disk
RunFetchFails_AfterSave ==
    /\ pc = "idle"
    /\ last_seen' = stored
    /\ stored' = SavedWatermark(stored, stored, Newest(Fetched, stored))
    /\ pc' = "exited"
    /\ outcome' = "fetch_failed"
    /\ rerun' = quiet
    /\ UNCHANGED <<upstream, all_txs, new_txs, outbox, posted, prev, quiet, hist>>
    /\ UNCHANGED <<chunkVars, fmtVars>>

\* a run in which one of the fetches of lines 263-271 raises: state.json
\* has been read and nothing else has happened
RunFetchFails ==
    /\ pc = "idle"
    /\ last_seen' = stored
    /\ pc' = "exited"
    /\ outcome' = "fetch_failed"
    /\ rerun' = quiet
    /\ UNCHANGED <<upstream, stored, all_txs, new_txs, outbox, posted, prev, quiet, hist>>
    /\ UNCHANGED <<chunkVars, fmtVars>>

\* a run whose fetches succeed, up to the sort of new_txs (lines 260-291);
\* with nothing new it returns at line 289
RunClassifies ==
    /\ pc = "idle"
    /\ last_seen' = stored
    /\ all_txs' = Fetched
    /\ new_txs' = SortByTs(NewTxs(all_txs', last_seen'))
    /\ stored' = SavedWatermark(stored, last_seen', Newest(all_txs', last_seen'))
    /\ pc' = IF new_txs' = <<>> THEN "exited" ELSE "classified"
    /\ outcome' = IF new_txs' = <<>> THEN "ok" ELSE "running"
    /\ hist' = [id \in DOMAIN hist |->
          [n    |-> IF id \in Ids(new_txs') /\ hist[id].n < 2
                    THEN hist[id].n + 1 ELSE hist[id].n,
           pend |-> hist[id].pend \/
                    \E i \in DOMAIN all_txs' :
                        all_txs'[i].id = id /\ ~is_final_status(all_txs'[i])]]
    /\ rerun' = quiet
    /\ quiet' = TRUE
    /\ UNCHANGED <<upstream, outbox, posted, prev>>
    /\ UNCHANGED <<chunkVars, fmtVars>>

\* the receipts are rendered and chunked (lines 293-319, up to the first
\* call of post); a formatter that raises ends the run
RunRenders ==
    /\ pc = "classified"
    /\ outbox' = IF Raises(new_txs, LeagueMaps(Len(LeagueRosters))) THEN <<>>
                 ELSE Messages(new_txs, LeagueMaps(Len(LeagueRosters)))
    /\ pc' = IF outbox' = <<>> THEN "exited" ELSE "posting"
    /\ outcome' = IF Raises(new_txs, LeagueMaps(Len(LeagueRosters))) THEN "raised"
                  ELSE IF outbox' = <<>> THEN "ok" ELSE outcome
    /\ UNCHANGED <<upstream, stored, last_seen, all_txs, new_txs, posted, prev,
                   quiet, rerun, hist>>
    /\ UNCHANGED <<chunkVars, fmtVars>>

\* post() returns (lines 315, 319)
PostOk ==
    /\ pc = "posting"
    /\ posted' = Append(posted, <<Head(outbox)[1], Sent(Head(outbox)[2])>>)
    /\ outbox' = Tail(outbox)
    /\ pc' = IF Tail(outbox) = <<>> THEN "exited" ELSE "posting"
    /\ outcome' = IF Tail(outbox) = <<>> THEN "ok" ELSE outcome
    /\ UNCHANGED <<upstream, stored, last_seen, all_txs, new_txs, prev, quiet, rerun, hist>>
    /\ UNCHANGED <<chunkVars, fmtVars>>

\* post() raises: the run ends with the rest undelivered
PostFails ==
    /\ pc = "posting"
    /\ pc' = "exited"
    /\ outcome' = "post_failed"
    /\ UNCHANGED <<upstream, stored, last_seen, all_txs, new_txs, outbox, posted,
                   prev, quiet, rerun, hist>>
    /\ UNCHANGED <<chunkVars, fmtVars>>

\* the process is gone; the scheduler may start the next run
RunExits ==
    /\ pc = "exited"
    /\ pc' = "idle"
    /\ prev' = outcome
    /\ last_seen' = 0 /\ all_txs' = <<>> /\ new_txs' = <<>>
    /\ outbox' = <<>> /\ posted' = <<>> /\ outcome' = "none" /\ rerun' = FALSE
    /\ UNCHANGED <<upstream, stored, quiet, hist>>
    /\ UNCHANGED <<chunkVars, fmtVars>>

Init == RunInit /\ ChunkIdle /\ FormatIdle

Next ==
    \/ TxAppears
    \/ TxSettles
    \/ RunFetchFails
    \/ RunClassifies
    \/ RunRenders
    \/ PostOk
    \/ PostFails
    \/ RunExits

Spec == Init /\ [][Next]_vars

InitChunk == RunIdle /\ ChunkInit /\ FormatIdle

NextChunk ==
    \/ ChunkClose
    \/ ChunkExtend
    \/ ChunkReturn

SpecChunk == InitChunk /\ [][NextChunk]_vars

InitFormat == RunIdle /\ ChunkIdle /\ FormatInit

NextFormat ==
    \/ FormatWaiver
    \/ FormatTrade

SpecFormat == InitFormat /\ [][NextFormat]_vars

InitResolve == RunIdle /\ ChunkIdle /\ ResolveInit

NextResolve ==
    \/ BuildMaps
    \/ ResolveCall

SpecResolve == InitResolve /\ [][NextResolve]_vars

(***************************************************************************)
(* Properties of the job (checked under Spec).                             *)
(***************************************************************************)
\* the run has fetched: main's locals hold this run's values
Fetching == pc \in {"classified", "posting", "exited"} /\ outcome # "fetch_failed"

TerminalNames == {"complete", "approved", "executed"}

Terminal(t) == Lower(t.status) \in TerminalNames

Timestamp(t) == IF t.status_updated # 0 THEN t.status_updated ELSE t.created

InOutput(t) == \E j \in DOMAIN new_txs : new_txs[j] = t

RECURSIVE MaxOf(_)
MaxOf(S) == IF S = {} THEN 0
            ELSE LET x == CHOOSE y \in S : TRUE IN Max(x, MaxOf(S \ {x}))

\* the transaction renders to a receipt
HasBlock(t) == Block(t, LeagueMaps(Len(LeagueRosters))).lines # <<>>

\* the lines of a receipt that name the transaction's own assets
OwnLines(t) ==
    LET ls == Block(t, LeagueMaps(Len(LeagueRosters))).lines
    IN  {Render(ls[i]) : i \in {j \in DOMAIN ls : ls[j].k \in {"player", "receives"}}}

HasReceipt(t) ==
    \E m \in {outbox[i] : i \in DOMAIN outbox} \cup {posted[i] : i \in DOMAIN posted} :
        \E r \in DOMAIN m[2] : m[2][r][1] \in OwnLines(t)

\* C1: the stored watermark never decreases, whatever the runs do (also
\* the runs that abort on a fetch or a delivery failure)
C1_WatermarkMonotonic == [][stored' >= stored]_vars

C1_Witness ==
    /\ pc = "exited" /\ outcome \in {"fetch_failed", "post_failed"}
    /\ stored > 0 /\ prev = "ok"

\* C2: a terminal transaction with a timestamp above the watermark is in
\* the output of the run that observes it, and no transaction is in the
\* output of more than one run
C2_IncludedExactlyOnce ==
    /\ Fetching =>
          \A i \in DOMAIN all_txs :
              Timestamp(all_txs[i]) > last_seen /\ Terminal(all_txs[i])
                  => InOutput(all_txs[i]) /\ hist[all_txs[i].id].n = 1
    /\ \A id \in DOMAIN hist : hist[id].n <= 1

\* a later run observes a delivered transaction again and leaves it out
C2_Witness ==
    /\ Fetching /\ prev = "ok"
    /\ \E i \in DOMAIN all_txs :
          /\ Terminal(all_txs[i]) /\ ~InOutput(all_txs[i])
          /\ hist[all_txs[i].id].n = 1
    /\ \E i \in DOMAIN all_txs : InOutput(all_txs[i])

\* C3: a run that starts with upstream as the previous fetch saw it has an
\* empty output and delivers no message
C3_IdempotentRerun ==
    (Fetching /\ rerun) => new_txs = <<>> /\ outbox = <<>> /\ posted = <<>>

C3_Witness ==
    /\ pc = "exited" /\ outcome = "ok" /\ rerun /\ prev = "ok"
    /\ \E i \in DOMAIN all_txs :
          Terminal(all_txs[i]) /\ hist[all_txs[i].id].n = 1 /\ HasBlock(all_txs[i])

\* C4: a fetched transaction is in the run's output iff its timestamp is
\* above the watermark read at the start and its status is terminal, and
\* no receipt is made for a transaction that is not in the output
C4_InclusionRule ==
    Fetching =>
        \A i \in DOMAIN all_txs :
            /\ InOutput(all_txs[i])
                  <=> (Timestamp(all_txs[i]) > last_seen /\ Terminal(all_txs[i]))
            /\ ~(Timestamp(all_txs[i]) > last_seen /\ Terminal(all_txs[i]))
                  => ~HasReceipt(all_txs[i])

\* one transaction included, a terminal one at the watermark left out
C4_Witness ==
    /\ pc = "posting" /\ Len(all_txs) = 2 /\ Len(new_txs) = 1
    /\ \E i \in DOMAIN all_txs :
          /\ ~InOutput(all_txs[i]) /\ Terminal(all_txs[i])
          /\ Timestamp(all_txs[i]) = last_seen

\* C5: after the fetches of a run the stored watermark is the maximum of
\* the start watermark and the timestamps of all fetched transactions,
\* final or not; and with upstream unchanged nothing is new in a later run
C5_WatermarkIsNewestSeen ==
    Fetching =>
        /\ stored = MaxOf({last_seen} \cup {Timestamp(all_txs[i]) : i \in DOMAIN all_txs})
        /\ rerun => \A i \in DOMAIN all_txs : Timestamp(all_txs[i]) <= last_seen

\* watermark 0, A complete at 100, B a pending trade at 150: the output is
\* [A] and the watermark 150
C5_Witness ==
    /\ Fetching /\ last_seen = 0 /\ Len(all_txs) = 2
    /\ all_txs[1].status = "complete" /\ Timestamp(all_txs[1]) = 100
    /\ all_txs[2].status = "pending" /\ Timestamp(all_txs[2]) = 150
    /\ all_txs[2].type = "trade"
    /\ new_txs = <<all_txs[1]>>
    /\ stored = 150

\* C6 (as claimed): a transaction observed non-final by one run and final
\* by a later one is in the output of some run
C6_NoLostUpdate ==
    Fetching =>
        \A i \in DOMAIN all_txs :
            hist[all_txs[i].id].pend /\ Terminal(all_txs[i])
                => hist[all_txs[i].id].n >= 1

\* C6 (amended): a transaction observed non-final by one run and final by
\* a later one is in that run's output exactly if its timestamp is then
\* above the watermark; one that never was included stays at or below the
\* stored watermark, so no later run includes it either
C6_LateFinalIncludedIffNewer ==
    Fetching =>
        \A i \in DOMAIN all_txs :
            hist[all_txs[i].id].pend /\ Terminal(all_txs[i])
                => /\ InOutput(all_txs[i]) <=> Timestamp(all_txs[i]) > last_seen
                   /\ hist[all_txs[i].id].n = 0 => Timestamp(all_txs[i]) <= stored

\* a transaction seen pending, then final with a later status_updated, is
\* included
C6_Witness ==
    /\ Fetching
    /\ \E i \in DOMAIN all_txs :
          hist[all_txs[i].id].pend /\ Terminal(all_txs[i]) /\ InOutput(all_txs[i])

\* C7: whenever a delivery is attempted the watermark on disk already
\* covers every fetched transaction, and the run after a failed delivery,
\* with upstream unchanged, delivers nothing
C7_SavedBeforeDelivery ==
    /\ (pc = "posting" \/ posted # <<>> \/ outcome = "post_failed")
          => /\ stored >= last_seen
             /\ \A i \in DOMAIN all_txs : Timestamp(all_txs[i]) <= stored
    /\ (Fetching /\ rerun /\ prev = "post_failed")
          => new_txs = <<>> /\ outbox = <<>> /\ posted = <<>>

C7_Witness ==
    /\ pc = "exited" /\ outcome = "ok" /\ rerun /\ prev = "post_failed"
    /\ \E i \in DOMAIN all_txs :
          Terminal(all_txs[i]) /\ hist[all_txs[i].id].n = 1 /\ HasBlock(all_txs[i])

(***************************************************************************)
(* Properties of chunk_lines (checked under SpecChunk).                    *)
(***************************************************************************)
\* C8: every chunk chunk_lines returns is at most 1900 characters long,
\* for every header and every list of lines
C8_ChunkSizeBound ==
    c_pc = "done" => \A i \in DOMAIN c_msgs : StrLen(c_msgs[i]) <= 1900

(***************************************************************************)
(* Properties of the formatters (checked under SpecFormat).                *)
(***************************************************************************)
Formatted == f_pc = "done"

\* the identifier is absent, not a number, or in neither map
Malformed(val) ==
    \/ val = None
    \/ val.k = "str"
    \/ (val.v \notin DOMAIN f_maps.rmap /\ val.v \notin DOMAIN f_maps.user_to_rid)

\* the asset e is on the receipt; where its identifier is a number, under
\* the fallback team name made from that number
ShownWithFallback(e) ==
    LET name == IF e.pid \in DOMAIN f_maps.pmap THEN f_maps.pmap[e.pid] ELSE e.pid
        team == "Roster " \o ToString(e.val.v)
        ls   == f_out.lines
    IN  /\ f_out.res = "lines"
        /\ \/ \E i \in DOMAIN ls :
                 /\ ls[i].k = "receives"
                 /\ \E j \in DOMAIN ls[i].items : ls[i].items[j] = name
                 /\ (e.val.k \in {"int", "numstr"} => ls[i].team = team)
           \/ \E i \in DOMAIN ls :
                 /\ ls[i].k = "player" /\ ls[i].items = <<name>>
                 /\ (e.val.k \in {"int", "numstr"} =>
                        \E h \in 1..(i - 1) :
                            /\ ls[h].k = "team" /\ ls[h].team = team
                            /\ \A g \in (h + 1)..(i - 1) : ls[g].k # "team")

\* C9: a malformed identifier never makes a formatter fail, and the asset
\* it belongs to is still on the receipt, under a fallback team name
C9_MalformedIdNeverFatal ==
    Formatted =>
        /\ f_out.res # "raise"
        /\ \A i \in DOMAIN f_t.adds :
               Malformed(f_t.adds[i].val) => ShownWithFallback(f_t.adds[i])
        /\ \A i \in DOMAIN f_t.drops :
               Malformed(f_t.drops[i].val) => ShownWithFallback(f_t.drops[i])

\* the identifier names a team, directly or through its owner
Resolves(val) ==
    /\ val.k \in {"int", "numstr"}
    /\ (val.v \in DOMAIN f_maps.rmap \/ val.v \in DOMAIN f_maps.user_to_rid)

TeamOf(val) ==
    IF val.v \in DOMAIN f_maps.rmap THEN val.v ELSE f_maps.user_to_rid[val.v]

PickTarget(pk) == IF Truthy(pk.owner_id) THEN pk.owner_id ELSE pk.roster_id

\* the teams that receive something in the trade f_t
ReceivingTeams ==
    {TeamOf(f_t.adds[i].val) : i \in {j \in DOMAIN f_t.adds : Resolves(f_t.adds[j].val)}}
    \cup {TeamOf(PickTarget(f_t.draft_picks[i])) :
             i \in {j \in DOMAIN f_t.draft_picks : Resolves(PickTarget(f_t.draft_picks[j]))}}

\* the participants field of f_t, where it is given
ExplicitParticipants ==
    IF f_t.roster_ids # <<>> THEN f_t.roster_ids ELSE f_t.consenter_roster_ids

\* the teams taking part: the participants, else the teams that receive
ParticipatingTeams ==
    IF ExplicitParticipants # <<>>
    THEN {TeamOf(ExplicitParticipants[i]) :
             i \in {j \in DOMAIN ExplicitParticipants : Resolves(ExplicitParticipants[j])}}
    ELSE ReceivingTeams

\* C10 (as claimed): a trade with fewer than two distinct participating
\* teams gives no output
C10_TwoTeamsOrNothing ==
    (Formatted /\ f_t.type = "trade" /\ Cardinality(ParticipatingTeams) < 2)
        => f_out.res = "none"

\* C10 (amended): a trade gives no output exactly when no added player and
\* no pick goes to a team that resolves; otherwise it is rendered, also
\* with fewer than two distinct teams
C10_NothingIffNothingReceived ==
    (Formatted /\ f_t.type = "trade")
        => (f_out.res = "none" <=> ReceivingTeams = {})

\* a trade in which one team takes part, rendered
C10_Witness ==
    /\ Formatted /\ f_t.type = "trade"
    /\ Cardinality(ParticipatingTeams) = 1
    /\ f_out.res = "lines" /\ Len(f_out.lines) = 2

\* the members of s, each once, in the order of their first occurrence
RECURSIVE Distinct(_)
Distinct(s) ==
    IF s = <<>> THEN <<>>
    ELSE LET rest == Distinct(SubSeq(s, 1, Len(s) - 1))
             last == s[Len(s)]
         IN  IF \E i \in DOMAIN rest : rest[i] = last THEN rest ELSE Append(rest, last)

\* the teams the participants field of f_t names, in the order it names them
ParticipantTeamSeq ==
    LET named == SelectSeq(ExplicitParticipants, Resolves)
    IN  Distinct([i \in DOMAIN named |-> TeamOf(named[i])])

\* what the team receives in the trade f_t: its added players, then its picks
Receives(team) ==
    LET adds  == SelectSeq(f_t.adds,
                           LAMBDA e : Resolves(e.val) /\ TeamOf(e.val) = team)
        picks == SelectSeq(f_t.draft_picks,
                           LAMBDA pk : Resolves(PickTarget(pk))
                                       /\ TeamOf(PickTarget(pk)) = team)
    IN  [i \in DOMAIN adds |-> fmt_player(adds[i].pid, f_maps.pmap)]
        \o [i \in DOMAIN picks |->
               PickText(picks[i], f_maps.rmap, f_maps.user_to_rid)]

\* C11: a rendered trade that has a participants field shows, after the
\* title, exactly one line per participating team, in the order of the
\* participants, each line listing what that team receives, with a dash for
\* a team that receives nothing
C11_OneLinePerParticipant ==
    (Formatted /\ f_t.type = "trade" /\ ExplicitParticipants # <<>>
     /\ f_out.res = "lines")
        => LET teams == ParticipantTeamSeq
               body  == Tail(f_out.lines)
           IN  /\ Len(body) = Len(teams)
               /\ \A i \in DOMAIN body :
                      Render(body[i]) =
                          "**" \o TeamName(teams[i], f_maps.rmap) \o " receives:** "
                          \o (IF Receives(teams[i]) = <<>> THEN "-"
                              ELSE Join(Receives(teams[i]), ", "))

\* the adds and the drops of f_t
MovedAssets == f_t.adds \o f_t.drops

\* the team header lines of the receipt, in order
TeamLines == SelectSeq(f_out.lines, LAMBDA l : l.k = "team")

\* the canonical ids of the teams of f_t's assets, ascending
CanonicalTeams ==
    SortedSeq({TeamOf(MovedAssets[i].val) : i \in DOMAIN MovedAssets})

\* the player of asset e is listed under label (adds / drops) in the block
\* of e's canonical team
InBlock(e, label) ==
    LET ls == f_out.lines
    IN  \E h, g, i \in DOMAIN ls :
            /\ h < g /\ g < i
            /\ ls[h].k = "team"
            /\ ls[h].team = TeamName(TeamOf(e.val), f_maps.rmap)
            /\ ls[g].k = label
            /\ ls[i].k = "player" /\ ls[i].items = <<fmt_player(e.pid, f_maps.pmap)>>
            /\ \A x \in (h + 1)..(i - 1) : ls[x].k # "team"
            /\ \A x \in (g + 1)..(i - 1) : ls[x].k = "player"

\* C12: in a roster-move receipt whose identifiers all resolve, there is one
\* block per canonical team, the blocks are in ascending canonical team id
\* order, every added player is under Adds in the block of the team its
\* identifier resolves to and every dropped player under Drops likewise (an
\* owner id and the team id it maps to share a block)
C12_GroupedByCanonicalTeam ==
    (Formatted /\ f_t.type = "waiver" /\ f_out.res = "lines"
     /\ \A i \in DOMAIN MovedAssets : Resolves(MovedAssets[i].val))
        => /\ [i \in DOMAIN TeamLines |-> TeamLines[i].team]
                  = [i \in DOMAIN CanonicalTeams |->
                        TeamName(CanonicalTeams[i], f_maps.rmap)]
           /\ \A i \in DOMAIN f_t.adds : InBlock(f_t.adds[i], "adds")
           /\ \A i \in DOMAIN f_t.drops : InBlock(f_t.drops[i], "drops")

(***************************************************************************)
(* Further properties of chunk_lines (checked under SpecChunk).            *)
(***************************************************************************)
\* C13: no chunk chunk_lines returns is the header alone; every returned
\* chunk holds at least one input line
C13_NoHeaderOnlyChunk ==
    c_pc = "done" => \A i \in DOMAIN c_msgs : c_msgs[i] # c_header

\* the chunk that starts as cur and takes lines, each followed by a newline
RECURSIVE ChunkOf(_, _)
ChunkOf(cur, lines) ==
    IF lines = <<>> THEN cur
    ELSE ChunkOf(Cat(Cat(cur, Head(lines)), Str(NL)), Tail(lines))

\* a split of c_lines into consecutive non-empty groups is the set of the
\* positions after which it cuts
SplitsOfLines == SUBSET (1..(Len(c_lines) - 1))

GroupCount(cuts) == IF c_lines = <<>> THEN 0 ELSE Cardinality(cuts) + 1

\* every group of the split, started with the header, is within the budget
SplitFits(cuts) ==
    \A b \in cuts \cup (IF c_lines = <<>> THEN {} ELSE {Len(c_lines)}) :
        LET a == MaxOf({x \in cuts : x < b})
        IN  StrLen(ChunkOf(c_header, SubSeq(c_lines, a + 1, b))) <= 1900

\* C14: no split of the lines into consecutive groups, each started with
\* the header and each within 1900 characters, has fewer groups than
\* chunk_lines returns chunks
C14_FewestChunks ==
    c_pc = "done" =>
        \A cuts \in SplitsOfLines : SplitFits(cuts) => Len(c_msgs) <= GroupCount(cuts)

\* two chunks returned where the lines can also be split in three
C14_Witness ==
    /\ c_pc = "done" /\ Len(c_msgs) = 2
    /\ \E cuts \in SplitsOfLines : SplitFits(cuts) /\ GroupCount(cuts) = 3
    /\ \E cuts \in SplitsOfLines : SplitFits(cuts) /\ GroupCount(cuts) = 2
    /\ ~SplitFits({})

(***************************************************************************)
(* Further properties of the job (checked under Spec).                     *)
(***************************************************************************)
\* the transaction has no renderable assets
EmptyTransaction(t) == t.adds = <<>> /\ t.drops = <<>> /\ t.draft_picks = <<>>

\* the loop of lines 296-311 has run over new_txs
Rendered ==
    \/ pc = "posting"
    \/ pc = "exited" /\ outcome \in {"ok", "post_failed"} /\ new_txs # <<>>

\* C15: a transaction of the output without adds, drops and picks gets no
\* block from its formatter and leaves no trace in the messages (they are
\* the messages of the other transactions alone), the run does not fail,
\* and every other transaction is still rendered
C15_EmptySkipped ==
    /\ (\E i \in DOMAIN new_txs : EmptyTransaction(new_txs[i])) => outcome # "raised"
    /\ Rendered =>
          /\ \A i \in DOMAIN new_txs :
                 EmptyTransaction(new_txs[i])
                     => Block(new_txs[i], LeagueMaps(Len(LeagueRosters))).res = "none"
          /\ posted \o outbox =
                 Messages(SelectSeq(new_txs, LAMBDA t : ~EmptyTransaction(t)),
                          LeagueMaps(Len(LeagueRosters)))
          /\ \A i \in DOMAIN new_txs :
                 ~EmptyTransaction(new_txs[i]) => HasReceipt(new_txs[i])

\* an empty transaction processed first, the one after it rendered
C15_Witness ==
    /\ pc = "posting" /\ Len(new_txs) = 2
    /\ EmptyTransaction(new_txs[1]) /\ ~EmptyTransaction(new_txs[2])
    /\ HasReceipt(new_txs[2])

(***************************************************************************)
(* Properties of the resolver and its maps (checked under SpecResolve).    *)
(***************************************************************************)
\* C16: resolve_rid returns the identifier's number when it is a known team
\* id (also when it is an owner id as well), else the team the owner map
\* gives for it, else unresolved; a missing or non-numeric identifier is
\* unresolved
C16_ResolveOrder ==
    f_pc = "resolved" =>
        LET val    == f_t.val
            known  == DOMAIN f_maps.rmap
            owners == DOMAIN f_maps.user_to_rid
        IN  IF val.k \in {"none", "str"} THEN ~f_out.ok
            ELSE /\ val.v \in known => f_out = [ok |-> TRUE, rid |-> val.v]
                 /\ (val.v \notin known /\ val.v \in owners)
                       => f_out = [ok |-> TRUE, rid |-> f_maps.user_to_rid[val.v]]
                 /\ (val.v \notin known /\ val.v \notin owners) => ~f_out.ok

\* an identifier that is a team id and the owner id of another team
C16_Witness ==
    /\ f_pc = "resolved"
    /\ f_t.val.k = "numstr"
    /\ f_t.val.v \in DOMAIN f_maps.rmap
    /\ f_t.val.v \in DOMAIN f_maps.user_to_rid
    /\ f_maps.user_to_rid[f_t.val.v] # f_t.val.v
    /\ f_out = [ok |-> TRUE, rid |-> f_t.val.v]

\* the place of transaction t in the fetch
FetchIndex(t) == CHOOSE i \in DOMAIN all_txs : all_txs[i] = t

\* the text of a channel's messages, delivered or waiting, in the order of
\* the calls of post
ChannelText(channel) ==
    LET ms == SelectSeq(posted \o outbox, LAMBDA m : m[1] = channel)
    IN  Flatten([i \in DOMAIN ms |-> ms[i][2]])

\* where the lines of t's receipt stand in the text of its channel
ReceiptPlaces(t) ==
    LET text == ChannelText(Channel(t))
    IN  {k \in DOMAIN text : text[k][1] \in OwnLines(t)}

\* C17: the output of a run is in ascending timestamp order, transactions
\* of one timestamp in the order they were fetched, and in each channel
\* the receipts stand in that order
C17_AscendingOrder ==
    Fetching =>
        /\ \A i, j \in DOMAIN new_txs :
               i < j =>
                   /\ Timestamp(new_txs[i]) <= Timestamp(new_txs[j])
                   /\ Timestamp(new_txs[i]) = Timestamp(new_txs[j])
                         => FetchIndex(new_txs[i]) < FetchIndex(new_txs[j])
                   /\ Channel(new_txs[i]) = Channel(new_txs[j])
                         => \A a \in ReceiptPlaces(new_txs[i]),
                               b \in ReceiptPlaces(new_txs[j]) : a < b
        /\ pc = "posting" =>
               \A i \in DOMAIN new_txs :
                   HasBlock(new_txs[i]) => ReceiptPlaces(new_txs[i]) # {}

\* B, fetched second, has the earlier timestamp and its receipt stands
\* before A's in the channel they share
C17_Witness ==
    /\ pc = "posting" /\ Len(new_txs) = 2
    /\ new_txs[1].id = "B" /\ new_txs[2].id = "A"
    /\ Timestamp(new_txs[1]) < Timestamp(new_txs[2])
    /\ Channel(new_txs[1]) = Channel(new_txs[2])
    /\ ReceiptPlaces(new_txs[1]) # {} /\ ReceiptPlaces(new_txs[2]) # {}

\* what a run started now would take as new
NewNow == SortByTs(NewTxs(Fetched, stored))

\* the step is taken by a run whose fetch fails, from its start to its exit
FailedRunStep == outcome' = "fetch_failed" \/ outcome = "fetch_failed"

\* C18: a run in which a fetch fails leaves the stored watermark as it was
\* and delivers no message, so that the transactions a run would take as
\* new are the same after it as before it
C18_FetchFailureChangesNothing ==
    [][FailedRunStep =>
          /\ stored' = stored
          /\ posted' = <<>> /\ outbox' = <<>>
          /\ NewNow' = NewNow]_vars

\* a run has failed on a fetch after an earlier one went through, with a
\* new final transaction upstream that it would have delivered
C18_Witness ==
    /\ pc = "exited" /\ outcome = "fetch_failed"
    /\ prev = "ok" /\ stored > 0
    /\ NewNow # <<>>
    /\ \E i \in DOMAIN NewNow : HasBlock(NewNow[i])

\* each chunk is the header followed by whole lines, each with its newline,
\* and the chunks together take the lines in order, all of them
RECURSIVE Covers(_, _, _)
Covers(chunks, header, lines) ==
    IF chunks = <<>> THEN lines = <<>>
    ELSE \E j \in 0..Len(lines) :
             /\ Head(chunks) = ChunkOf(header, SubSeq(lines, 1, j))
             /\ Covers(Tail(chunks), header, SubSeq(lines, j + 1, Len(lines)))

\* the chunk in hand when the loop ends holds nothing but the header and
\* lines of whitespace
LastChunkBlank ==
    \E j \in 0..Len(c_lines) :
        /\ c_cur = ChunkOf(c_header, SubSeq(c_lines, j + 1, Len(c_lines)))
        /\ \A x \in (j + 1)..Len(c_lines) : Strip(c_lines[x]) = <<>>

\* C19 (as claimed): the returned chunks, each without its leading header,
\* are together every input line followed by a newline, in the input
\* order, and every line is whole in one chunk
C19_LosesNothing ==
    c_pc = "done" => Covers(c_msgs, c_header, c_lines)

\* C19 (amended): the same holds of the returned chunks followed by the
\* last chunk where that one holds only lines of whitespace; that last
\* chunk, and no other, is not returned
C19_LosesOnlyBlankTail ==
    c_pc = "done" =>
        Covers(IF LastChunkBlank THEN Append(c_msgs, c_cur) ELSE c_msgs,
               c_header, c_lines)

\* a chunk is returned and the one after it, a line of spaces, is not
C19_Witness ==
    /\ c_pc = "done" /\ Len(c_msgs) = 1 /\ Len(c_lines) = 2
    /\ c_msgs[1] # c_header
    /\ c_cur # c_header /\ LastChunkBlank
    /\ ~Covers(c_msgs, c_header, c_lines)

\* C20: in the maps roster_name_map builds, every team id the owner map
\* gives is a key of the name map, and a team id resolve_rid returns has a
\* name there
C20_OwnerTeamsNamed ==
    /\ f_pc \in {"built", "resolved"} =>
          \A o \in DOMAIN f_maps.user_to_rid :
              f_maps.user_to_rid[o] \in DOMAIN f_maps.rmap
    /\ (f_pc = "resolved" /\ f_out.ok) => f_out.rid \in DOMAIN f_maps.rmap

\* an owner id resolved to its team, the owner not being a known user and
\* another roster having no owner
C20_Witness ==
    /\ f_pc = "resolved" /\ f_out.ok
    /\ f_t.val.v \notin DOMAIN f_maps.rmap
    /\ f_t.val.v \in DOMAIN f_maps.user_to_rid
    /\ f_maps.rmap[f_out.rid] = "Roster " \o ToString(f_out.rid)
    /\ Cardinality(DOMAIN f_maps.rmap) > Cardinality(DOMAIN f_maps.user_to_rid)

====
